---- MODULE Spec2Model ----
(***************************************************************************)
(* Ovenbird: the Vivado IP descriptor (ovenbird/vivado_ip.py) and the      *)
(* decoder of the Vivado simulator's capture (ovenbird/cosimulation.py).   *)
(*                                                                         *)
(* Text is a sequence of pieces.  Names, digits and cell texts are spelled *)
(* one character per piece, so that replace('.', '_'), str(), int() and    *)
(* split('.') are computed on the characters; the fixed text of a format   *)
(* string or template is one piece.                                        *)
(***************************************************************************)
EXTENDS Integers, Sequences, FiniteSets, TLC

VARIABLES
    constructed,            \* VivadoIP.__init__ has returned
    entity_name, ip_name, module_name, ports, vendor, library, version, config,
    vhdl_instance_idx,      \* self._vhdl_instance_idx
    verilog_instance_idx,   \* self._verilog_instance_idx
    ret,                    \* what the last call on the descriptor returned or raised
    vhdl_instances,         \* instance names returned by get_vhdl_instance, in call order
    verilog_instances,      \* instance names returned by get_verilog_instance, in call order
    directory,              \* output_directory: file name -> content
    \* the decoding of one cell (cosimulation.py:428-446)
    signal_type,            \* value kind of the cell's column: bool, signed, unsigned
    port_width,             \* declared bit width of the column's port
    dut_str_value,          \* the cell's text
    each_value,             \* the decoded value, once decoded
    \* the decoding of a capture (cosimulation.py:398-579)
    arg_types,              \* argument name -> argument type
    outputs,                \* sim_object.outputs[1] as the reference run recorded it
    outputs_length,         \* cycles the reference run recorded
    vivado_signals,         \* the capture: its columns, in file order
    interface_outputs,      \* interface name -> (field -> decoded cells)
    siglist_outputs,        \* list name -> items (index, decoded cells), as inserted
    dut_outputs, ref_outputs,
    pc,                     \* position in _vivado_generic_cosimulation
    raised,                 \* the exception that ended the decoding, if any
    \* the extraction of the packets of one axi_stream_out argument
    \* (cosimulation.py:531-555)
    vivado_axi_packet,      \* the rows of the argument's packet file
    packets,                \* the packets closed so far
    packet,                 \* the values since the last closed packet
    transactions_read,      \* rows of the packet file the loop has been through
    axi_extracted,          \* what was stored in dut_outputs[each_signal]
    axi_pc,                 \* position in the extraction
    axi_raised,             \* the exception that ended the extraction, if any
    interface_columns,      \* the capture has interface columns of the argument
    ref_axi_entry,          \* packets and incomplete_packet of ref_outputs[each_signal]
    \* one run of _vivado_generic_cosimulation (cosimulation.py:99-579)
    run_pc,                 \* the statement the run is at
    environment,            \* what the run meets: executable, files, tool output, ...
    target_language, keep_temp_files,
    run_outputs_length,     \* outputs_length, once the reference run has been made
    tmp_dir,                \* the temporary directory: none, exists, deleted
    stages,                 \* the stages the run has completed, in order
    tool_invocations,       \* times the Vivado process was started
    tool_cycles,            \* cycles the simulate script asks the tool to run
    run_raised,             \* the exception the run is ending with, if any
    bundle_returned,        \* (dut_outputs, ref_outputs) has been returned
    \* one call of _get_signal_names_to_port_names (cosimulation.py:80-93)
    code,                   \* the lines of the file
    comment_string,
    next_line,              \* the line the scan of finditer is at
    signal_name_mappings,
    names_pc,               \* idle, scanning, returned, raised
    \* threads calling one instance-creation method of one descriptor
    \* (vivado_ip.py:208-209, 403-406)
    instance_idx,           \* the counter of the method: _vhdl_instance_idx or
                            \* _verilog_instance_idx
    mutex_used,             \* the callers guard the descriptor by one mutex
    mutex_holder,           \* the thread holding it, 0 for none
    thread_pc,              \* per thread: statement of the call it is in
    thread_number,          \* per thread: the number in the name it has formed
    thread_loaded,          \* per thread: the counter value read by +=
    thread_calls,           \* per thread: calls completed
    issued                  \* the numbers of the instances returned, with the thread

ipVars == <<constructed, entity_name, ip_name, module_name, ports, vendor, library,
            version, config, vhdl_instance_idx, verilog_instance_idx, ret,
            vhdl_instances, verilog_instances, directory>>

cellVars == <<signal_type, port_width, dut_str_value, each_value>>

decVars == <<arg_types, outputs, outputs_length, vivado_signals, interface_outputs,
             siglist_outputs, dut_outputs, ref_outputs, pc, raised>>

axiVars == <<vivado_axi_packet, packets, packet, transactions_read, axi_extracted,
             axi_pc, axi_raised, interface_columns, ref_axi_entry>>

runVars == <<run_pc, environment, target_language, keep_temp_files,
             run_outputs_length, tmp_dir, stages, tool_invocations, tool_cycles,
             run_raised, bundle_returned>>

nameVars == <<code, comment_string, next_line, signal_name_mappings, names_pc>>

threadVars == <<instance_idx, mutex_used, mutex_holder, thread_pc, thread_number,
                thread_loaded, thread_calls, issued>>

vars == <<ipVars, cellVars, decVars, axiVars, runVars, nameVars, threadVars>>

(***************************************************************************)
(* Bounds                                                                  *)
(***************************************************************************)
MaxInstances == 3           \* calls of one instance-creation method that are explored
MaxCellLen == 3             \* characters of a cell text
MaxWidth == 2               \* declared bit width of a recorded port
MaxCycles == 2              \* cycles recorded by the reference run
MaxColumns == 3             \* columns of the capture
MaxTransactions == 5        \* rows of a packet file

(***************************************************************************)
(* Text helpers                                                            *)
(***************************************************************************)
DigitChars == <<"0", "1", "2", "3", "4", "5", "6", "7", "8", "9">>

RECURSIVE Str(_)
\* str(n) / '%d' % n for n >= 0
Str(n) == IF n < 10 THEN <<DigitChars[n + 1]>>
          ELSE Str(n \div 10) \o <<DigitChars[(n % 10) + 1]>>

\* s.replace('.', '_')
ReplaceDot(s) == [i \in 1..Len(s) |-> IF s[i] = "." THEN "_" ELSE s[i]]

NoText == <<>>

(***************************************************************************)
(* Inputs of the descriptor                                                *)
(***************************************************************************)
PortA == <<"A">>
PortB == <<"B">>
PortSX == <<"s", ".", "x">>
PortZ == <<"Z">>            \* never a port of any descriptor
SigP == <<"P">>
SigBY == <<"b", ".", "y">>
SigQ == <<"Q">>

\* the ip_mapping of a port: the name of the port on the IP block
IpMapping(name) == <<"O", "p">> \o name

\* type objects: len() and .min
PortTypes == { [len |-> 0, min |-> 0], [len |-> 1, min |-> 0],
               [len |-> 2, min |-> 0], [len |-> 2, min |-> -2] }

\* PortDirection.input, PortDirection.output, and a value that is neither
Directions == {"input", "output", "inout"}

PortNameLists == { <<PortA>>, <<PortSX, PortA>> }

\* ports: an ordered mapping port name -> (type, direction, ip_mapping)
PortLists ==
    UNION { { [i \in 1..Len(names) |->
                 [name |-> names[i], type |-> ty[i], direction |-> dr[i],
                  ip_mapping |-> IpMapping(names[i])]] :
              ty \in [1..Len(names) -> PortTypes],
              dr \in [1..Len(names) -> Directions] } :
            names \in PortNameLists }

PortNames(ps) == {ps[i].name : i \in 1..Len(ps)}

\* **port_mappings of the instance-creation methods
PortMappingChoices ==
    { <<>>,
      (PortA :> SigBY),
      (PortSX :> SigQ) @@ (PortA :> SigP),
      (PortZ :> SigQ),
      (PortA :> SigP) @@ (PortZ :> SigQ) }

Keys(pm) == IF pm = <<>> THEN {} ELSE DOMAIN pm

EntityName == <<"e">>
IpName == <<"i", "p">>
\* config: an ordered mapping option -> value
ConfigChoices == { <<>>,
                   <<[option |-> <<"c", "_", "s">>, value |-> <<"8">>],
                     [option |-> <<"c", "_", "o">>, value |-> <<"o", "r">>]>> }

OutputDirectories == {"tmp_dir", "not_a_directory"}

WrapperFilename(e) == e \o <<".vhd">>

(***************************************************************************)
(* VivadoIP.__init__                                                       *)
(***************************************************************************)
IpInit ==
    /\ constructed = FALSE
    /\ entity_name = NoText /\ ip_name = NoText /\ module_name = NoText
    /\ ports = <<>>
    /\ vendor = NoText /\ library = NoText /\ version = NoText
    /\ config = <<>>
    /\ vhdl_instance_idx = 0 /\ verilog_instance_idx = 0
    /\ ret = [op |-> "none"]
    /\ vhdl_instances = <<>> /\ verilog_instances = <<>>
    /\ directory = <<>>

Construct(e, ps, ip, cfg) ==
    /\ ~constructed
    /\ constructed' = TRUE
    /\ entity_name' = e
    /\ ip_name' = ip
    /\ module_name' = ip \o <<"_">> \o e
    /\ ports' = ps
    /\ vendor' = <<"xilinx.com">> /\ library' = <<"ip">> /\ version' = <<"2.0">>
    /\ config' = cfg
    /\ vhdl_instance_idx' = 0
    /\ verilog_instance_idx' = 0
    /\ ret' = [op |-> "__init__", raised |-> "none"]
    /\ UNCHANGED <<vhdl_instances, verilog_instances, directory>>

(***************************************************************************)
(* VivadoIP.get_vhdl_instance / get_verilog_instance                       *)
(***************************************************************************)
InstanceName(e, idx) == e \o <<"_">> \o Str(idx)

NextInstanceIdx_Reused(idx) == idx

NextInstanceIdx_ByTwo(idx) == idx + 2

\* self._vhdl_instance_idx += 1 / self._verilog_instance_idx += 1
NextInstanceIdx(idx) == idx + 1

\* the name a port is connected to
InstancePortName(port_name, pm) ==
    IF port_name \in Keys(pm) THEN pm[port_name] ELSE port_name

VhdlPortMappingStrings_OnlyMapped(ps, pm) ==
    LET mapped == SelectSeq(ps, LAMBDA port : port.name \in Keys(pm))
    IN [i \in 1..Len(mapped) |->
          ReplaceDot(mapped[i].name) \o <<"=>">> \o
          <<"${">> \o ReplaceDot(pm[mapped[i].name]) \o <<"}">>]

VhdlPortMappingStrings(ps, pm) ==
    [i \in 1..Len(ps) |->
        ReplaceDot(ps[i].name) \o <<"=>">> \o
        <<"${">> \o ReplaceDot(InstancePortName(ps[i].name, pm)) \o <<"}">>]

VerilogPortMappingStrings(ps, pm) ==
    [i \in 1..Len(ps) |->
        <<".">> \o ps[i].ip_mapping \o <<"(">> \o
        <<"${">> \o InstancePortName(ps[i].name, pm) \o <<"}">> \o <<")">>]

GetVhdlInstance(pm) ==
    /\ constructed
    /\ vhdl_instance_idx < MaxInstances
    /\ LET instance_name == InstanceName(entity_name, vhdl_instance_idx)
       IN /\ vhdl_instance_idx' = NextInstanceIdx(vhdl_instance_idx)
          /\ ret' = [op |-> "get_vhdl_instance", port_mappings |-> pm,
                     raised |-> "none",
                     value |-> [instance_name |-> instance_name,
                                entity_name |-> entity_name,
                                port_mappings |-> VhdlPortMappingStrings(ports, pm)]]
          /\ vhdl_instances' = Append(vhdl_instances, instance_name)
    /\ UNCHANGED <<constructed, entity_name, ip_name, module_name, ports, vendor,
                   library, version, config, verilog_instance_idx,
                   verilog_instances, directory>>

GetVerilogInstance(pm) ==
    /\ constructed
    /\ verilog_instance_idx < MaxInstances
    /\ LET instance_name == InstanceName(entity_name, verilog_instance_idx)
       IN /\ verilog_instance_idx' = NextInstanceIdx(verilog_instance_idx)
          /\ ret' = [op |-> "get_verilog_instance", port_mappings |-> pm,
                     raised |-> "none",
                     value |-> [instance_name |-> instance_name,
                                module_name |-> module_name,
                                port_mappings |-> VerilogPortMappingStrings(ports, pm)]]
          /\ verilog_instances' = Append(verilog_instances, instance_name)
    /\ UNCHANGED <<constructed, entity_name, ip_name, module_name, ports, vendor,
                   library, version, config, vhdl_instance_idx,
                   vhdl_instances, directory>>

(***************************************************************************)
(* VivadoIP.write_vhdl_wrapper                                             *)
(***************************************************************************)
Wrapped(port_name) == <<"wrapped_">> \o port_name

IpTypeString(port) ==
    IF port.type.len > 1 THEN <<"std_logic_vector">> ELSE <<"std_logic">>

EntityTypeString(port) ==
    IF port.type.len > 1
    THEN (IF port.type.min < 0 THEN <<"signed">> ELSE <<"unsigned">>)
    ELSE <<"std_logic">>

SizeString(port) ==
    IF port.type.len > 1
    THEN <<"(">> \o Str(port.type.len - 1) \o <<" downto 0)">>
    ELSE NoText

DirectionString(port) == IF port.direction = "input" THEN <<"in">> ELSE <<"out">>

WrappedSignalAssignment_OutputAsInput(port) ==
    Wrapped(port.name) \o <<" <= ">> \o IpTypeString(port) \o
    <<"(">> \o port.name \o <<")">>

\* the line appended to wrapped_signal_assignment_strings for one port
WrappedSignalAssignment(port) ==
    IF port.direction = "input"
    THEN Wrapped(port.name) \o <<" <= ">> \o IpTypeString(port) \o
         <<"(">> \o port.name \o <<")">>
    ELSE port.name \o <<" <= ">> \o EntityTypeString(port) \o
         <<"(">> \o Wrapped(port.name) \o <<")">>

VhdlWrapper(e, m, ps) ==
    [entity_name |-> e,
     module_name |-> m,
     entity_ports |->
        [i \in 1..Len(ps) |->
            ps[i].name \o <<": ">> \o DirectionString(ps[i]) \o <<" ">> \o
            EntityTypeString(ps[i]) \o SizeString(ps[i])],
     wrapped_signal_instantiations |->
        [i \in 1..Len(ps) |->
            <<"signal ">> \o Wrapped(ps[i].name) \o <<": ">> \o
            IpTypeString(ps[i]) \o SizeString(ps[i])],
     wrapped_signal_assignments |->
        [i \in 1..Len(ps) |-> WrappedSignalAssignment(ps[i])],
     ip_component_ports |->
        [i \in 1..Len(ps) |->
            ps[i].ip_mapping \o <<": ">> \o DirectionString(ps[i]) \o <<" ">> \o
            IpTypeString(ps[i]) \o SizeString(ps[i])],
     ip_port_mappings |->
        [i \in 1..Len(ps) |->
            ps[i].ip_mapping \o <<" => ">> \o Wrapped(ps[i].name)]]

SupportedDirection(port) == port.direction \in {"input", "output"}

Exists(filename) == directory # <<>> /\ filename \in DOMAIN directory

WriteVhdlWrapper(output_directory) ==
    /\ constructed
    /\ LET wrapper_filename == WrapperFilename(entity_name)
           call == [op |-> "write_vhdl_wrapper", output_directory |-> output_directory]
       IN IF output_directory # "tmp_dir"
          THEN /\ ret' = call @@ [raised |-> "IOError"]
               /\ UNCHANGED directory
          ELSE IF \E i \in 1..Len(ports) : ~SupportedDirection(ports[i])
          THEN /\ ret' = call @@ [raised |-> "ValueError"]
               /\ UNCHANGED directory
          ELSE IF Exists(wrapper_filename)
          THEN /\ ret' = call @@ [raised |-> "IOError"]
               /\ UNCHANGED directory
          ELSE /\ ret' = call @@ [raised |-> "none", value |-> wrapper_filename]
               /\ directory' = (wrapper_filename :>
                                   VhdlWrapper(entity_name, module_name, ports))
                                @@ directory
    /\ UNCHANGED <<constructed, entity_name, ip_name, module_name, ports, vendor,
                   library, version, config, vhdl_instance_idx, verilog_instance_idx,
                   vhdl_instances, verilog_instances>>

(***************************************************************************)
(* VivadoIP.tcl_string                                                     *)
(***************************************************************************)
TclCreationString ==
    <<"create_ip -name ">> \o ip_name \o <<" -vendor ">> \o vendor \o
    <<" -library ">> \o library \o <<" -version ">> \o version \o
    <<" -module_name ">> \o module_name \o <<"\n">>

ConfigStrings_FirstOnly ==
    [i \in 1..(IF Len(config) > 1 THEN 1 ELSE Len(config)) |->
        <<"CONFIG.">> \o config[i].option \o <<" {">> \o config[i].value \o <<"}">>]

\* ' '.join('CONFIG.%s {%s}' % (option, value) ...): one piece list per pair
ConfigStrings ==
    [i \in 1..Len(config) |->
        <<"CONFIG.">> \o config[i].option \o <<" {">> \o config[i].value \o <<"}">>]

TclConfigString ==
    [head |-> <<"set_property -dict [list ">>,
     config_string |-> ConfigStrings,
     tail |-> <<"] [get_ips ">> \o module_name \o <<"]\n">>]

TclOutputProductsString ==
    <<"generate_target all [get_ips ">> \o module_name \o <<"]\n">>

TclString ==
    /\ constructed
    /\ ret' = [op |-> "tcl_string", raised |-> "none",
               value |-> <<TclCreationString, TclConfigString, TclOutputProductsString>>]
    /\ UNCHANGED <<constructed, entity_name, ip_name, module_name, ports, vendor,
                   library, version, config, vhdl_instance_idx, verilog_instance_idx,
                   vhdl_instances, verilog_instances, directory>>

(***************************************************************************)
(* Values of a decoded trace.  None, bool and int are kept apart by a tag.  *)
(***************************************************************************)
None == [t |-> "None", v |-> 0]
BoolVal(b) == [t |-> "bool", v |-> IF b THEN 1 ELSE 0]
IntVal(n) == [t |-> "int", v |-> n]
Pending == [t |-> "pending", v |-> 0]

RECURSIVE Pow2(_)
Pow2(n) == IF n <= 0 THEN 1 ELSE 2 * Pow2(n - 1)

(***************************************************************************)
(* Cell decode (cosimulation.py:428-446)                                   *)
(***************************************************************************)
CellChars == {"0", "1", "2", "-", "X"}

DigitValue(ch) ==
    CASE ch = "0" -> 0 [] ch = "1" -> 1 [] ch = "2" -> 2 [] ch = "3" -> 3
      [] ch = "4" -> 4 [] ch = "5" -> 5 [] ch = "6" -> 6 [] ch = "7" -> 7
      [] ch = "8" -> 8 [] ch = "9" -> 9 [] OTHER -> 99

RECURSIVE DigitsValue(_, _)
DigitsValue(digits, base) ==
    IF digits = <<>> THEN 0
    ELSE base * DigitsValue(SubSeq(digits, 1, Len(digits) - 1), base)
         + DigitValue(digits[Len(digits)])

\* int(text, base) on texts over digits, '-' and letters: an optional sign and one
\* or more digits below the base; anything else raises ValueError
IntParse(text, base) ==
    LET negative == text # <<>> /\ text[1] = "-"
        digits == IF negative THEN Tail(text) ELSE text
    IN IF digits # <<>> /\ \A i \in 1..Len(digits) : DigitValue(digits[i]) < base
       THEN [ok |-> TRUE,
             val |-> IF negative THEN 0 - DigitsValue(digits, base)
                     ELSE DigitsValue(digits, base)]
       ELSE [ok |-> FALSE, val |-> 0]

\* intbv(text)[len(text):]: the value of the text read in base 2, masked to
\* len(text) bits, as an intbv of len(text) bits
IntbvOfText(text) ==
    LET parsed == IntParse(text, 2)
    IN [ok |-> parsed.ok,
        val |-> parsed.val % Pow2(Len(text)),
        nrbits |-> Len(text)]

Signed_Unsigned(bv) == bv.val

\* intbv.signed(): the two's-complement reading of the nrbits bits
Signed(bv) ==
    IF bv.nrbits > 0 /\ bv.val >= Pow2(bv.nrbits - 1)
    THEN bv.val - Pow2(bv.nrbits)
    ELSE bv.val

DecodeCell_UndefinedAsZero(kind, text) ==
    IF kind = "bool"
    THEN LET parsed == IntParse(text, 10)
         IN IF parsed.ok THEN BoolVal(parsed.val # 0) ELSE BoolVal(FALSE)
    ELSE LET bv == IntbvOfText(text)
         IN IF ~bv.ok THEN IntVal(0)
            ELSE IF kind = "signed" THEN IntVal(Signed(bv)) ELSE IntVal(bv.val)

\* the body of the loop over the cells of one column; ValueError gives None
DecodeCell(kind, text) ==
    IF kind = "bool"
    THEN LET parsed == IntParse(text, 10)
         IN IF parsed.ok THEN BoolVal(parsed.val # 0) ELSE None
    ELSE LET bv == IntbvOfText(text)
         IN IF ~bv.ok THEN None
            ELSE IF kind = "signed" THEN IntVal(Signed(bv)) ELSE IntVal(bv.val)

RECURSIVE TextsOfLen(_)
TextsOfLen(n) ==
    IF n = 0 THEN {<<>>}
    ELSE {Append(t, ch) : t \in TextsOfLen(n - 1), ch \in CellChars}

CellTexts == UNION {TextsOfLen(n) : n \in 0..MaxCellLen}

SignalTypes == {"bool", "signed", "unsigned"}

CellIdle ==
    /\ signal_type = "bool" /\ port_width = 1
    /\ dut_str_value = <<>> /\ each_value = Pending

CellInit ==
    /\ signal_type \in SignalTypes
    /\ port_width \in 1..MaxWidth
    /\ dut_str_value \in CellTexts
    /\ each_value = Pending

DecodeOneCell ==
    /\ each_value = Pending
    /\ each_value' = DecodeCell(signal_type, dut_str_value)
    /\ UNCHANGED <<signal_type, port_width, dut_str_value>>

(***************************************************************************)
(* Decoding of the capture (cosimulation.py:398-579)                       *)
(***************************************************************************)
EmptyDict == <<>>

Put_KeepExisting(d, k, v) == d @@ (k :> v)

Get(d, k) == d[k]
Has(d, k) == k \in DOMAIN d
Put(d, k, v) == (k :> v) @@ d

Min(a, b) == IF a < b THEN a ELSE b

RECURSIVE Split(_, _)
\* text.split(sep): the texts between the occurrences of the piece sep
Split(text, sep) ==
    IF \E i \in 1..Len(text) : text[i] = sep
    THEN LET i == CHOOSE k \in 1..Len(text) :
                     text[k] = sep /\ \A j \in 1..(k - 1) : text[j] # sep
         IN <<SubSeq(text, 1, i - 1)>> \o Split(SubSeq(text, i + 1, Len(text)), sep)
    ELSE <<text>>

\* the position of the last piece of text equal to piece among the first n (0: none)
LastIndexOf(text, piece, n) ==
    IF \E i \in 1..n : text[i] = piece
    THEN CHOOSE i \in 1..n : text[i] = piece /\ \A j \in (i + 1)..n : text[j] # piece
    ELSE 0

\* re.search('(?P<list_name>.*)\[(?P<index>.*)\]', each_signal): both groups greedy
ParseListHeader(each_signal) ==
    LET close == LastIndexOf(each_signal, "]", Len(each_signal))
        open == LastIndexOf(each_signal, "[", close - 1)
    IN IF close = 0 \/ open = 0
       THEN [matched |-> FALSE, list_name |-> <<>>, index |-> <<>>]
       ELSE [matched |-> TRUE,
             list_name |-> SubSeq(each_signal, 1, open - 1),
             index |-> SubSeq(each_signal, open + 1, close - 1)]

\* the decoded cells of one column
DecodeColumnCells(kind, cells) ==
    [r \in 1..Len(cells) |->
        DecodeCell(IF kind = <<"bool">> THEN "bool"
                   ELSE IF kind = <<"signed">> THEN "signed" ELSE "unsigned",
                   cells[r])]

\* d[index] = cells on an insertion-ordered dict kept as its items
PutItem(items, index, cells) ==
    IF \E i \in 1..Len(items) : items[i][1] = index
    THEN [i \in 1..Len(items) |->
            IF items[i][1] = index THEN <<index, cells>> ELSE items[i]]
    ELSE Append(items, <<index, cells>>)

\* one pass of the loop over the columns (lines 421-475) on the accumulated
\* dut_outputs (dut), interface_outputs (interfaces) and siglist_outputs (siglists)
ClassifyColumn(acc, column) ==
    LET tokens == Split(column.header, " ")
    IN IF acc.raised # "none" THEN acc
       ELSE IF Len(tokens) # 3 THEN [acc EXCEPT !.raised = "ValueError"]
       ELSE
         LET sig_container == tokens[1]
             each_signal == tokens[3]
             each_dut_outputs == DecodeColumnCells(tokens[2], column.cells)
         IN IF sig_container = <<"interface">>
            THEN LET output_name_list == Split(each_signal, ".")
                 IN IF Len(output_name_list) < 2
                    THEN [acc EXCEPT !.raised = "IndexError"]
                    ELSE LET name == output_name_list[1]
                             fields == IF Has(acc.interfaces, name)
                                       THEN acc.interfaces[name] ELSE EmptyDict
                         IN [acc EXCEPT !.interfaces =
                                Put(acc.interfaces, name,
                                    Put(fields, output_name_list[2], each_dut_outputs))]
            ELSE IF sig_container = <<"list">>
            THEN LET parsed_header == ParseListHeader(each_signal)
                     siglist_index == IntParse(parsed_header.index, 10)
                 IN IF ~parsed_header.matched
                    THEN [acc EXCEPT !.raised = "AttributeError"]
                    ELSE IF ~siglist_index.ok
                    THEN [acc EXCEPT !.raised = "ValueError"]
                    ELSE LET name == parsed_header.list_name
                             items == IF Has(acc.siglists, name)
                                      THEN acc.siglists[name] ELSE <<>>
                         IN [acc EXCEPT !.siglists =
                                Put(acc.siglists, name,
                                    PutItem(items, siglist_index.val, each_dut_outputs))]
            ELSE [acc EXCEPT !.dut = Put(acc.dut, each_signal, each_dut_outputs)]

RECURSIVE ClassifyColumns(_, _)
ClassifyColumns(acc, columns) ==
    IF columns = <<>> THEN acc
    ELSE ClassifyColumns(ClassifyColumn(acc, Head(columns)), Tail(columns))

OrderedSiglistOutput_AsInserted(items) == items

\* collections.OrderedDict(sorted(items, key=lambda t: t[0]))
OrderedSiglistOutput(items) == SortSeq(items, LAMBDA x, y : x[1] < y[1])

\* the length of zip(*sequences)
ZipLen(lengths) ==
    IF lengths = {} THEN 0
    ELSE CHOOSE n \in lengths : \A m \in lengths : n <= m

\* lines 485-488: per cycle, the values of the items in their order
ZipSiglist(ordered) ==
    [c \in 1..ZipLen({Len(ordered[i][2]) : i \in 1..Len(ordered)}) |->
        [i \in 1..Len(ordered) |-> ordered[i][2][c]]]

\* lines 479-490
AssembleLists(dut, siglists) ==
    [name \in (DOMAIN dut) \cup (DOMAIN siglists) |->
        IF name \in DOMAIN siglists
        THEN ZipSiglist(OrderedSiglistOutput(siglists[name]))
        ELSE dut[name]]

MergeInterface_RecordedOnly(entry, fields) ==
    LET n == Min(Len(entry), ZipLen({Len(fields[f]) : f \in DOMAIN fields}))
    IN IF n = 0 THEN entry
       ELSE [c \in 1..n |-> [f \in DOMAIN fields |-> fields[f][c]]]

\* lines 519-529, one interface that is no axi stream: the recorded fields of each
\* cycle are written over a copy of the cycle's entry of dut_outputs
MergeInterface(entry, fields) ==
    LET n == Min(Len(entry), ZipLen({Len(fields[f]) : f \in DOMAIN fields}))
    IN IF n = 0 THEN entry
       ELSE [c \in 1..n |->
               [f \in (DOMAIN entry[c]) \cup (DOMAIN fields) |->
                   IF f \in DOMAIN fields THEN fields[f][c] ELSE entry[c][f]]]

\* lines 492-529; KeyError when an interface is no argument
MergeInterfaces(types, dut, interfaces) ==
    IF \E name \in DOMAIN interfaces : ~Has(types, name) \/ ~Has(dut, name)
    THEN [raised |-> "KeyError", dut |-> dut]
    ELSE [raised |-> "none",
          dut |-> [name \in DOMAIN dut |->
                     IF name \in DOMAIN interfaces
                     THEN MergeInterface(dut[name], interfaces[name])
                     ELSE dut[name]]]

Truncate_KeepAll(trace, length) == trace

\* trace[:length]
Truncate(trace, length) == SubSeq(trace, 1, Min(length, Len(trace)))

\* the trim, with the trace of q taken from that of p
TrimOutputs_SharedTrace(d, names, length) ==
    [name \in DOMAIN d |->
        LET from == IF name = <<"q">> /\ <<"p">> \in DOMAIN d THEN <<"p">> ELSE name
        IN IF name \in names THEN Truncate(d[from], length) ELSE d[from]]

\* lines 557-569: the entries of the names of ref_outputs are cut to outputs_length
TrimOutputs(d, names, length) ==
    [name \in DOMAIN d |->
        IF name \in names THEN Truncate(d[name], length) ELSE d[name]]

\* lines 403-569 in one piece: the dut side of the bundle, or the exception
DecodeCapture(types, reference, length, capture) ==
    LET acc == ClassifyColumns(
                   [dut |-> reference, interfaces |-> EmptyDict,
                    siglists |-> EmptyDict, raised |-> "none"], capture)
        merged == MergeInterfaces(types, AssembleLists(acc.dut, acc.siglists),
                                  acc.interfaces)
    IN IF acc.raised # "none" THEN [raised |-> acc.raised, dut |-> EmptyDict]
       ELSE IF merged.raised # "none" THEN [raised |-> merged.raised, dut |-> EmptyDict]
       ELSE [raised |-> "none",
             dut |-> TrimOutputs(merged.dut, DOMAIN reference, length)]

(***************************************************************************)
(* Inputs of the decoder                                                   *)
(***************************************************************************)
ArgP == <<"p">>
ArgL == <<"l">>
ArgS == <<"s">>
ArgQ == <<"q">>

HeaderText(container, kind, name) == <<container, " ", kind, " ">> \o name

\* the headers a capture is made of, each with the number its cells are made from
HeaderPool ==
    { [header |-> HeaderText("plain", "signed", ArgP), seed |-> 0],
      [header |-> HeaderText("list", "signed", ArgL \o <<"[", "2", "]">>), seed |-> 2],
      [header |-> HeaderText("list", "signed", ArgL \o <<"[", "1", "0", "]">>),
       seed |-> 3],
      [header |-> HeaderText("interface", "signed", ArgS \o <<".", "a">>), seed |-> 4],
      [header |-> HeaderText("interface", "bool", ArgS \o <<".", "d">>), seed |-> 5] }

RECURSIVE HeaderSeqsOfLen(_)
HeaderSeqsOfLen(n) ==
    IF n = 0 THEN {<<>>}
    ELSE {Append(hs, h) : hs \in HeaderSeqsOfLen(n - 1), h \in HeaderPool}

HeaderSeqs ==
    { hs \in UNION {HeaderSeqsOfLen(n) : n \in 1..MaxColumns} :
        \A i, j \in 1..Len(hs) : i # j => hs[i] # hs[j] }

\* headers outside the grammar 'plain|list|interface kind name[.field]': a
\* container token that is none of the three, and names of two nesting levels
MalformedHeaderPool ==
    { [header |-> HeaderText("struct", "signed", ArgQ), seed |-> 6],
      [header |-> HeaderText("interface", "signed", ArgS \o <<".", "b", ".", "x">>),
       seed |-> 7],
      [header |-> HeaderText("struct", "plain", ArgS \o <<".", "a", ".", "x">>),
       seed |-> 1] }

\* a malformed header alone, or before or after one header of the pool
MalformedHeaderSeqs ==
    { <<m>> : m \in MalformedHeaderPool }
    \cup { <<m, h>> : m \in MalformedHeaderPool, h \in HeaderPool }
    \cup { <<h, m>> : m \in MalformedHeaderPool, h \in HeaderPool }

\* the text the simulator writes for a resolved value: '0'/'1' for a bool, three
\* bits for a vector
ResolvedCell(h, row) ==
    IF Split(h.header, " ")[2] = <<"bool">>
    THEN <<IF (h.seed + row) % 2 = 1 THEN "1" ELSE "0">>
    ELSE LET n == (h.seed + row) % 8
         IN <<IF n >= 4 THEN "1" ELSE "0",
              IF (n \div 2) % 2 = 1 THEN "1" ELSE "0",
              IF n % 2 = 1 THEN "1" ELSE "0">>

UnresolvedCell == <<"X">>

\* a capture of the given headers and rows whose cell at position unresolved
\* (<<column, row>>, or <<0, 0>> for none) is unresolved
Capture(hs, rows, unresolved) ==
    [k \in 1..Len(hs) |->
        [header |-> hs[k].header,
         cells |-> [r \in 1..rows |->
                      IF unresolved = <<k, r>> THEN UnresolvedCell
                      ELSE ResolvedCell(hs[k], r)]]]

\* what the reference run recorded for the arguments, over the given cycles
Reference(cycles) ==
    (ArgP :> [c \in 1..cycles |-> IntVal(100 + c)])
    @@ (ArgQ :> [c \in 1..cycles |-> BoolVal(c % 2 = 1)])
    @@ (ArgL :> [c \in 1..cycles |->
                    <<IntVal(110 + c), IntVal(120 + c), IntVal(130 + c)>>])
    @@ (ArgS :> [c \in 1..cycles |->
                    (<<"a">> :> IntVal(140 + c)) @@ (<<"b">> :> IntVal(150 + c))
                    @@ (<<"d">> :> BoolVal(c % 2 = 1))])

ArgTypes ==
    (ArgP :> "output") @@ (ArgQ :> "clock") @@ (ArgL :> "output") @@ (ArgS :> "output")

\* lines 119-132: the common length of the reference run's entries
OutputsLength(ref) ==
    CHOOSE n \in {Len(ref[name]) : name \in DOMAIN ref} : TRUE

\* the rows of a capture: the simulator is run for one cycle more than the
\* reference run recorded, and may stop a cycle or two early
CaptureRows(cycles) == {rows \in {cycles - 1, cycles, cycles + 1} : rows >= 1}

DecIdle ==
    /\ arg_types = EmptyDict /\ outputs = EmptyDict /\ outputs_length = 0
    /\ vivado_signals = <<>>
    /\ interface_outputs = EmptyDict /\ siglist_outputs = EmptyDict
    /\ dut_outputs = EmptyDict /\ ref_outputs = EmptyDict
    /\ pc = "idle" /\ raised = "none"

\* the capture file has been read (lines 398-417)
DecInit ==
    /\ arg_types = ArgTypes
    /\ \E cycles \in 1..MaxCycles :
          /\ outputs = Reference(cycles)
          /\ outputs_length = OutputsLength(Reference(cycles))
          /\ \E hs \in HeaderSeqs \cup MalformedHeaderSeqs, rows \in CaptureRows(cycles) :
                \E unresolved \in {<<0, 0>>} \cup ((1..Len(hs)) \X (1..rows)) :
                    vivado_signals = Capture(hs, rows, unresolved)
    /\ interface_outputs = EmptyDict /\ siglist_outputs = EmptyDict
    /\ dut_outputs = EmptyDict /\ ref_outputs = EmptyDict
    /\ pc = "capture_read" /\ raised = "none"

\* lines 403-475
ClassifyStep ==
    /\ pc = "capture_read"
    /\ LET acc == ClassifyColumns(
                     [dut |-> outputs, interfaces |-> EmptyDict,
                      siglists |-> EmptyDict, raised |-> "none"],
                     vivado_signals)
       IN /\ ref_outputs' = outputs
          /\ dut_outputs' = acc.dut
          /\ interface_outputs' = acc.interfaces
          /\ siglist_outputs' = acc.siglists
          /\ raised' = acc.raised
          /\ pc' = IF acc.raised = "none" THEN "classified" ELSE "failed"
    /\ UNCHANGED <<arg_types, outputs, outputs_length, vivado_signals>>

\* lines 479-490
ListStep ==
    /\ pc = "classified"
    /\ dut_outputs' = AssembleLists(dut_outputs, siglist_outputs)
    /\ pc' = "lists_assembled"
    /\ UNCHANGED <<arg_types, outputs, outputs_length, vivado_signals,
                   interface_outputs, siglist_outputs, ref_outputs, raised>>

\* lines 492-529
InterfaceStep ==
    /\ pc = "lists_assembled"
    /\ LET merged == MergeInterfaces(arg_types, dut_outputs, interface_outputs)
       IN /\ dut_outputs' = merged.dut
          /\ raised' = merged.raised
          /\ pc' = IF merged.raised = "none" THEN "interfaces_merged" ELSE "failed"
    /\ UNCHANGED <<arg_types, outputs, outputs_length, vivado_signals,
                   interface_outputs, siglist_outputs, ref_outputs>>

\* lines 557-579
TrimStep ==
    /\ pc = "interfaces_merged"
    /\ ref_outputs' = TrimOutputs(ref_outputs, DOMAIN ref_outputs, outputs_length)
    /\ dut_outputs' = TrimOutputs(dut_outputs, DOMAIN ref_outputs, outputs_length)
    /\ pc' = "returned"
    /\ UNCHANGED <<arg_types, outputs, outputs_length, vivado_signals,
                   interface_outputs, siglist_outputs, raised>>

(***************************************************************************)
(* Extraction of the axi packets (cosimulation.py:531-555)                 *)
(***************************************************************************)
RECURSIVE Bin(_)
\* the text of n >= 0 in base 2, as the simulator writes a TDATA value
Bin(n) == IF n < 2 THEN <<DigitChars[n + 1]>>
          ELSE Bin(n \div 2) \o <<DigitChars[(n % 2) + 1]>>

\* the texts of a TLAST cell: clear, set, unresolved
TLastTexts == {<<"0">>, <<"1">>, <<"X">>}

\* a row of csv.DictReader: column name -> cell text
Transaction(tdata, tlast) == [TDATA |-> tdata, TLAST |-> tlast]
TransactionNoTLast(tdata) == [TDATA |-> tdata]

\* the TDATA text of the k-th row; unresolved when k is the given row
TDataText(k, unresolved) == IF k = unresolved THEN <<"X">> ELSE Bin(k)

\* the packet files: n rows carrying 1, 2, ..., n with any TLAST cells, at most one
\* TDATA cell unresolved (row 0: none), or rows that have no TLAST column
PacketFiles ==
    UNION { { [k \in 1..n |-> Transaction(TDataText(k, unresolved), flags[k])] :
                flags \in [1..n -> TLastTexts], unresolved \in {0, 1, n} }
            \cup { [k \in 1..n |-> TransactionNoTLast(Bin(k))] } :
            n \in 0..MaxTransactions }

\* what the reference run recorded for the argument
ReferenceAxiEntry == [packets |-> << <<1, 2>> >>, incomplete_packet |-> <<3>>]

\* dut_outputs is a shallow copy of the reference's outputs (line 405): the entry
\* of the argument is the reference's own dict unless the merge of its interface
\* columns has put a new dict in its place (line 518)
DutEntryIsReferenceEntry(has_interface_columns) == ~has_interface_columns

AxiIdle ==
    /\ interface_columns = FALSE /\ ref_axi_entry = ReferenceAxiEntry
    /\ vivado_axi_packet = <<>> /\ packets = <<>> /\ packet = <<>>
    /\ transactions_read = 0 /\ axi_extracted = <<>>
    /\ axi_pc = "idle" /\ axi_raised = "none"

\* lines 539-544: the packet file has been read
AxiInit ==
    /\ interface_columns \in BOOLEAN /\ ref_axi_entry = ReferenceAxiEntry
    /\ vivado_axi_packet \in PacketFiles
    /\ packets = <<>> /\ packet = <<>>
    /\ transactions_read = 0 /\ axi_extracted = <<>>
    /\ axi_pc = "transactions" /\ axi_raised = "none"

TLastSet_Always(transaction) == TRUE

\* the truth of int(transaction['TLAST'])
TLastSet(transaction) == IntParse(transaction.TLAST, 10).val # 0

\* lines 545-552: one pass of the loop over the transactions
AxiTransaction ==
    /\ axi_pc = "transactions"
    /\ transactions_read < Len(vivado_axi_packet)
    /\ LET transaction == vivado_axi_packet[transactions_read + 1]
           tdata == IntParse(transaction.TDATA, 2)
       IN IF ~tdata.ok
          THEN /\ axi_raised' = "ValueError" /\ axi_pc' = "failed"
               /\ UNCHANGED <<packets, packet, transactions_read>>
          ELSE IF "TLAST" \notin DOMAIN transaction
          THEN /\ packet' = Append(packet, tdata.val)
               /\ transactions_read' = transactions_read + 1
               /\ UNCHANGED <<packets, axi_pc, axi_raised>>
          ELSE IF ~IntParse(transaction.TLAST, 10).ok
          THEN /\ packet' = Append(packet, tdata.val)
               /\ axi_raised' = "ValueError" /\ axi_pc' = "failed"
               /\ UNCHANGED <<packets, transactions_read>>
          ELSE IF TLastSet(transaction)
          THEN /\ packets' = Append(packets, Append(packet, tdata.val))
               /\ packet' = <<>>
               /\ transactions_read' = transactions_read + 1
               /\ UNCHANGED <<axi_pc, axi_raised>>
          ELSE /\ packet' = Append(packet, tdata.val)
               /\ transactions_read' = transactions_read + 1
               /\ UNCHANGED <<packets, axi_pc, axi_raised>>
    /\ UNCHANGED <<vivado_axi_packet, axi_extracted, interface_columns, ref_axi_entry>>

\* lines 554-555
AxiStore ==
    /\ axi_pc = "transactions"
    /\ transactions_read = Len(vivado_axi_packet)
    /\ axi_extracted' = [packets |-> packets, incomplete_packet |-> packet]
    /\ ref_axi_entry' = IF DutEntryIsReferenceEntry(interface_columns)
                        THEN [packets |-> packets, incomplete_packet |-> packet]
                        ELSE ref_axi_entry
    /\ axi_pc' = "extracted"
    /\ UNCHANGED <<vivado_axi_packet, packets, packet, transactions_read, axi_raised,
                   interface_columns>>

(***************************************************************************)
(* One run of _vivado_generic_cosimulation (cosimulation.py:99-579)        *)
(***************************************************************************)
TargetLanguages == {"VHDL", "Verilog", "SystemC"}

\* what the tool wrote to its error stream: nothing, a message, or a message that
\* holds the path of the compiler's log file
ErrStreams == {"empty", "message", "message_with_log_path"}

\* what a run can meet
Environments ==
    [ vivado_executable : {"vivado", "None"},
      lengths_agree : BOOLEAN,          \* the reference traces have one length
      outputs_length : 1..MaxCycles,
      conversion : {"ok", "ConversionError"},
      hdl_files_exist : BOOLEAN,
      err : ErrStreams,
      log_file_exists : BOOLEAN,
      python : {2, 3},
      decoding : {"ok", "ValueError"} ]

RunIdle ==
    /\ run_pc = "idle"
    /\ environment = <<>>
    /\ target_language = "VHDL" /\ keep_temp_files = FALSE
    /\ run_outputs_length = 0
    /\ tmp_dir = "none" /\ stages = <<>>
    /\ tool_invocations = 0 /\ tool_cycles = 0
    /\ run_raised = "none" /\ bundle_returned = FALSE

\* the function has been called
RunInit ==
    /\ run_pc = "check_executable"
    /\ environment \in Environments
    /\ target_language \in TargetLanguages
    /\ keep_temp_files \in BOOLEAN
    /\ run_outputs_length = 0
    /\ tmp_dir = "none" /\ stages = <<>>
    /\ tool_invocations = 0 /\ tool_cycles = 0
    /\ run_raised = "none" /\ bundle_returned = FALSE

\* an exception raised outside the try statement leaves the function at once
RaiseOutsideTry(exception) ==
    /\ run_raised' = exception
    /\ run_pc' = "raised"

\* an exception raised inside the try statement goes through the finally clause
RaiseInsideTry(exception) ==
    /\ run_raised' = exception
    /\ run_pc' = "finally"

\* lines 104-105
CheckExecutable ==
    /\ run_pc = "check_executable"
    /\ IF environment.vivado_executable = "None"
       THEN RaiseOutsideTry("EnvironmentError")
       ELSE run_pc' = "reference_run" /\ UNCHANGED run_raised
    /\ UNCHANGED <<environment, target_language, keep_temp_files, run_outputs_length,
                   tmp_dir, stages, tool_invocations, tool_cycles, bundle_returned>>

\* lines 107-132: the reference simulation and the length of its traces
ReferenceRun ==
    /\ run_pc = "reference_run"
    /\ IF ~environment.lengths_agree
       THEN /\ RaiseOutsideTry("AssertionError")
            /\ UNCHANGED <<run_outputs_length, stages>>
       ELSE /\ run_outputs_length' = environment.outputs_length
            /\ stages' = Append(stages, "reference")
            /\ run_pc' = "mkdtemp"
            /\ UNCHANGED run_raised
    /\ UNCHANGED <<environment, target_language, keep_temp_files, tmp_dir,
                   tool_invocations, tool_cycles, bundle_returned>>

Cycles_NoLatency(length) == length

\* line 136: _cycles
Cycles(length) == length + 1

\* line 138
MakeTmpDir ==
    /\ run_pc = "mkdtemp"
    /\ tmp_dir' = "exists"
    /\ run_pc' = "generate"
    /\ UNCHANGED <<environment, target_language, keep_temp_files, run_outputs_length,
                   stages, tool_invocations, tool_cycles, run_raised, bundle_returned>>

\* lines 141-326: the convertible top, the IP wrappers and TCL, the conversion
GenerateAndConvert ==
    /\ run_pc = "generate"
    /\ IF target_language \notin {"VHDL", "Verilog"}
       THEN RaiseInsideTry("ValueError") /\ UNCHANGED stages
       ELSE IF environment.conversion # "ok"
       THEN RaiseInsideTry("OvenbirdConversionError") /\ UNCHANGED stages
       ELSE /\ stages' = Append(stages, "artifacts")
            /\ run_pc' = "check_hdl_files"
            /\ UNCHANGED run_raised
    /\ UNCHANGED <<environment, target_language, keep_temp_files, run_outputs_length,
                   tmp_dir, tool_invocations, tool_cycles, bundle_returned>>

\* the check of lines 328-334 left out
CheckHdlFiles_Unchecked ==
    /\ run_pc = "check_hdl_files"
    /\ stages' = Append(stages, "hdl_files_checked")
    /\ run_pc' = "invoke_tool"
    /\ UNCHANGED <<environment, target_language, keep_temp_files, run_outputs_length,
                   tmp_dir, tool_invocations, tool_cycles, run_raised, bundle_returned>>

\* lines 328-334
CheckHdlFiles ==
    /\ run_pc = "check_hdl_files"
    /\ IF ~environment.hdl_files_exist
       THEN RaiseInsideTry("EnvironmentError") /\ UNCHANGED stages
       ELSE /\ stages' = Append(stages, "hdl_files_checked")
            /\ run_pc' = "invoke_tool"
            /\ UNCHANGED run_raised
    /\ UNCHANGED <<environment, target_language, keep_temp_files, run_outputs_length,
                   tmp_dir, tool_invocations, tool_cycles, bundle_returned>>

\* lines 336-367: the simulate script (runtime period * _cycles), Popen, communicate
InvokeTool ==
    /\ run_pc = "invoke_tool"
    /\ tool_invocations' = tool_invocations + 1
    /\ tool_cycles' = Cycles(run_outputs_length)
    /\ stages' = Append(stages, "tool")
    /\ run_pc' = "check_err"
    /\ UNCHANGED <<environment, target_language, keep_temp_files, run_outputs_length,
                   tmp_dir, run_raised, bundle_returned>>

\* lines 369-396: what the statements under 'if err != b""' end with.  err is a
\* bytes object under Python 3, and err += '\n' then raises TypeError.
ErrException(err, log_file_exists, python) ==
    IF err = "message_with_log_path"
    THEN IF ~log_file_exists THEN "IOError"
         ELSE IF python = 3 THEN "TypeError"
         ELSE "VivadoError"
    ELSE "VivadoError"

CheckErr ==
    /\ run_pc = "check_err"
    /\ IF environment.err # "empty"
       THEN RaiseInsideTry(ErrException(environment.err, environment.log_file_exists,
                                        environment.python))
       ELSE run_pc' = "read_capture" /\ UNCHANGED run_raised
    /\ UNCHANGED <<environment, target_language, keep_temp_files, run_outputs_length,
                   tmp_dir, stages, tool_invocations, tool_cycles, bundle_returned>>

\* lines 398-555: the capture is read and decoded
ReadAndDecode ==
    /\ run_pc = "read_capture"
    /\ IF environment.decoding # "ok"
       THEN RaiseInsideTry(environment.decoding) /\ UNCHANGED stages
       ELSE /\ stages' = Append(stages, "decoded")
            /\ run_pc' = "trim"
            /\ UNCHANGED run_raised
    /\ UNCHANGED <<environment, target_language, keep_temp_files, run_outputs_length,
                   tmp_dir, tool_invocations, tool_cycles, bundle_returned>>

\* lines 557-569
TrimTraces ==
    /\ run_pc = "trim"
    /\ stages' = Append(stages, "trimmed")
    /\ run_pc' = "finally"
    /\ UNCHANGED <<environment, target_language, keep_temp_files, run_outputs_length,
                   tmp_dir, tool_invocations, tool_cycles, run_raised, bundle_returned>>

TmpDirAfterFinally_Kept(keep) == "exists"

\* lines 573-577
TmpDirAfterFinally(keep) == IF keep THEN "exists" ELSE "deleted"

\* lines 571-577, then the exception goes on to the caller, if there is one
Finally ==
    /\ run_pc = "finally"
    /\ tmp_dir' = TmpDirAfterFinally(keep_temp_files)
    /\ run_pc' = IF run_raised = "none" THEN "return" ELSE "raised"
    /\ UNCHANGED <<environment, target_language, keep_temp_files, run_outputs_length,
                   stages, tool_invocations, tool_cycles, run_raised, bundle_returned>>

\* line 579
ReturnBundle ==
    /\ run_pc = "return"
    /\ bundle_returned' = TRUE
    /\ stages' = Append(stages, "returned")
    /\ run_pc' = "returned"
    /\ UNCHANGED <<environment, target_language, keep_temp_files, run_outputs_length,
                   tmp_dir, tool_invocations, tool_cycles, run_raised>>

(***************************************************************************)
(* _get_signal_names_to_port_names (cosimulation.py:80-93)                 *)
(***************************************************************************)
MaxLines == 3

StartsWith(text, prefix) ==
    /\ Len(text) >= Len(prefix)
    /\ SubSeq(text, 1, Len(prefix)) = prefix

\* the fixed part of the pattern of line 88
AnnotationPattern(prefix) == <<prefix, " ", "<name_annotation>">>

\* the pattern found anywhere in the line, the match running to the line's end
MatchAnnotation_Anywhere(line, prefix) ==
    LET starts == {i \in 1..Len(line) :
                       StartsWith(SubSeq(line, i, Len(line)), AnnotationPattern(prefix))}
    IN IF starts = {} THEN [matched |-> FALSE, text |-> <<>>]
       ELSE [matched |-> TRUE,
             text |-> SubSeq(line, CHOOSE i \in starts : \A j \in starts : i <= j,
                             Len(line))]

\* the match of '^%s <name_annotation>.*?$' with re.MULTILINE in one line: the
\* pattern at the start of the line, the match running to the line's end
MatchAnnotation(line, prefix) ==
    IF StartsWith(line, AnnotationPattern(prefix))
    THEN [matched |-> TRUE, text |-> line]
    ELSE [matched |-> FALSE, text |-> <<>>]

\* text.split(): the runs of pieces between the blanks
SplitBlanks(text) == SelectSeq(Split(text, " "), LAMBDA run : run # <<>>)

\* the lines a generated file is made of
LinePool ==
    { <<"--", " ", "<name_annotation>", " ", "a", " ", "x">>,
      <<"--", " ", "<name_annotation>", " ", "a", " ", "y">>,
      <<"--", " ", "<name_annotation>", " ", "b", " ", "y", " ", "z">>,
      <<"//", " ", "<name_annotation>", " ", "b", " ", "x">>,
      <<" ", "--", " ", "<name_annotation>", " ", "a", " ", "y">>,
      <<"s", " ", "//", " ", "<name_annotation>", " ", "b", " ", "x">>,
      <<"--", " ", " ", "<name_annotation>", " ", "b", " ", "x">>,
      <<"--", " ", "<name_annotation>", " ", "a">>,
      <<"--", " ", "c">>,
      <<"s">> }

RECURSIVE LinesOfLen(_)
LinesOfLen(n) ==
    IF n = 0 THEN {<<>>}
    ELSE {Append(ls, l) : ls \in LinesOfLen(n - 1), l \in LinePool}

Codes == UNION {LinesOfLen(n) : n \in 0..MaxLines}

NamesIdle ==
    /\ names_pc = "idle"
    /\ code = <<>> /\ comment_string = "--"
    /\ next_line = 0 /\ signal_name_mappings = EmptyDict

\* lines 82-86: the file has been read and the mapping is empty
NamesInit ==
    /\ names_pc = "scanning"
    /\ code \in Codes
    /\ comment_string \in {"--", "//"}
    /\ next_line = 1
    /\ signal_name_mappings = EmptyDict

\* lines 87-91 on one line of the file
ScanLine ==
    /\ names_pc = "scanning"
    /\ next_line <= Len(code)
    /\ LET each == MatchAnnotation(code[next_line], comment_string)
           vals == SplitBlanks(each.text)
       IN IF ~each.matched
          THEN UNCHANGED <<signal_name_mappings, names_pc>>
          ELSE IF Len(vals) < 4
          THEN names_pc' = "raised" /\ UNCHANGED signal_name_mappings
          ELSE /\ signal_name_mappings' = Put(signal_name_mappings, vals[3], vals[4])
               /\ UNCHANGED names_pc
    /\ next_line' = next_line + 1
    /\ UNCHANGED <<code, comment_string>>

\* line 93
ReturnMappings ==
    /\ names_pc = "scanning"
    /\ next_line > Len(code)
    /\ names_pc' = "returned"
    /\ UNCHANGED <<code, comment_string, next_line, signal_name_mappings>>

(***************************************************************************)
(* Threads creating instances of one descriptor (vivado_ip.py:208-209,     *)
(* 403-406)                                                                *)
(***************************************************************************)
Threads == {1, 2}
MaxCalls == 2

ThreadsIdle ==
    /\ instance_idx = 0
    /\ mutex_used = FALSE /\ mutex_holder = 0
    /\ thread_pc = [t \in Threads |-> "idle"]
    /\ thread_number = [t \in Threads |-> 0]
    /\ thread_loaded = [t \in Threads |-> 0]
    /\ thread_calls = [t \in Threads |-> MaxCalls]
    /\ issued = <<>>

\* a descriptor just constructed (lines 173-174) and threads that have not called yet
ThreadsInit ==
    /\ instance_idx = 0
    /\ mutex_used \in BOOLEAN /\ mutex_holder = 0
    /\ thread_pc = [t \in Threads |-> "idle"]
    /\ thread_number = [t \in Threads |-> 0]
    /\ thread_loaded = [t \in Threads |-> 0]
    /\ thread_calls = [t \in Threads |-> 0]
    /\ issued = <<>>

MayEnter_Unguarded(holder, used) == TRUE

\* a caller under the mutex enters the method only when no thread holds the mutex
MayEnter(holder, used) == used => holder = 0

\* the thread calls the method, taking the mutex if the callers use one
EnterCall(t) ==
    /\ thread_pc[t] = "idle"
    /\ thread_calls[t] < MaxCalls
    /\ MayEnter(mutex_holder, mutex_used)
    /\ mutex_holder' = IF mutex_used THEN t ELSE mutex_holder
    /\ thread_pc' = [thread_pc EXCEPT ![t] = "form_name"]
    /\ UNCHANGED <<instance_idx, mutex_used, thread_number, thread_loaded,
                   thread_calls, issued>>

\* line 208 / 403-404: instance_name = entity_name + '_' + str(idx)
FormName(t) ==
    /\ thread_pc[t] = "form_name"
    /\ thread_number' = [thread_number EXCEPT ![t] = instance_idx]
    /\ thread_pc' = [thread_pc EXCEPT ![t] = "load"]
    /\ UNCHANGED <<instance_idx, mutex_used, mutex_holder, thread_loaded,
                   thread_calls, issued>>

\* line 209 / 406, idx += 1: the counter is read ...
LoadCounter(t) ==
    /\ thread_pc[t] = "load"
    /\ thread_loaded' = [thread_loaded EXCEPT ![t] = instance_idx]
    /\ thread_pc' = [thread_pc EXCEPT ![t] = "store"]
    /\ UNCHANGED <<instance_idx, mutex_used, mutex_holder, thread_number,
                   thread_calls, issued>>

\* ... and the value read plus one is stored
StoreCounter(t) ==
    /\ thread_pc[t] = "store"
    /\ instance_idx' = NextInstanceIdx(thread_loaded[t])
    /\ thread_pc' = [thread_pc EXCEPT ![t] = "build"]
    /\ UNCHANGED <<mutex_used, mutex_holder, thread_number, thread_loaded,
                   thread_calls, issued>>

\* the rest of the method: the instance of the name formed is returned, and the
\* caller gives the mutex back
ReturnInstance(t) ==
    /\ thread_pc[t] = "build"
    /\ issued' = Append(issued, [thread |-> t, number |-> thread_number[t]])
    /\ thread_calls' = [thread_calls EXCEPT ![t] = @ + 1]
    /\ mutex_holder' = IF mutex_used THEN 0 ELSE mutex_holder
    /\ thread_pc' = [thread_pc EXCEPT ![t] = "idle"]
    /\ UNCHANGED <<instance_idx, mutex_used, thread_number, thread_loaded>>

(***************************************************************************)
(* Specifications                                                          *)
(***************************************************************************)
Init == IpInit /\ CellIdle /\ DecIdle /\ AxiIdle /\ RunIdle /\ NamesIdle /\ ThreadsIdle

Next ==
    \/ \E ps \in PortLists, cfg \in ConfigChoices :
          Construct(EntityName, ps, IpName, cfg) /\ UNCHANGED <<cellVars, decVars, axiVars, runVars, nameVars, threadVars>>
    \/ \E pm \in PortMappingChoices :
          GetVhdlInstance(pm) /\ UNCHANGED <<cellVars, decVars, axiVars, runVars, nameVars, threadVars>>
    \/ \E pm \in PortMappingChoices :
          GetVerilogInstance(pm) /\ UNCHANGED <<cellVars, decVars, axiVars, runVars, nameVars, threadVars>>
    \/ \E d \in OutputDirectories :
          WriteVhdlWrapper(d) /\ UNCHANGED <<cellVars, decVars, axiVars, runVars, nameVars, threadVars>>
    \/ TclString /\ UNCHANGED <<cellVars, decVars, axiVars, runVars, nameVars, threadVars>>

\* the operations of one VivadoIP descriptor
Spec == Init /\ [][Next]_vars

CellNext == DecodeOneCell /\ UNCHANGED <<ipVars, decVars, axiVars, runVars, nameVars, threadVars>>

\* the decoding of one cell of the capture
InitCell == IpInit /\ CellInit /\ DecIdle /\ AxiIdle /\ RunIdle /\ NamesIdle /\ ThreadsIdle

SpecCell == InitCell /\ [][CellNext]_vars

DecodeNext ==
    \/ ClassifyStep /\ UNCHANGED <<ipVars, cellVars, axiVars, runVars, nameVars, threadVars>>
    \/ ListStep /\ UNCHANGED <<ipVars, cellVars, axiVars, runVars, nameVars, threadVars>>
    \/ InterfaceStep /\ UNCHANGED <<ipVars, cellVars, axiVars, runVars, nameVars, threadVars>>
    \/ TrimStep /\ UNCHANGED <<ipVars, cellVars, axiVars, runVars, nameVars, threadVars>>

InitDecode == IpInit /\ CellIdle /\ DecInit /\ AxiIdle /\ RunIdle /\ NamesIdle /\ ThreadsIdle

\* the decoding of one capture, from the file read to the bundle returned
SpecDecode == InitDecode /\ [][DecodeNext]_vars

AxiNext ==
    \/ AxiTransaction /\ UNCHANGED <<ipVars, cellVars, decVars, runVars, nameVars, threadVars>>
    \/ AxiStore /\ UNCHANGED <<ipVars, cellVars, decVars, runVars, nameVars, threadVars>>

InitAxi == IpInit /\ CellIdle /\ DecIdle /\ AxiInit /\ RunIdle /\ NamesIdle /\ ThreadsIdle

\* the extraction of the packets of one axi_stream_out argument
SpecAxi == InitAxi /\ [][AxiNext]_vars

RunNext ==
    \/ CheckExecutable /\ UNCHANGED <<ipVars, cellVars, decVars, axiVars, nameVars, threadVars>>
    \/ ReferenceRun /\ UNCHANGED <<ipVars, cellVars, decVars, axiVars, nameVars, threadVars>>
    \/ MakeTmpDir /\ UNCHANGED <<ipVars, cellVars, decVars, axiVars, nameVars, threadVars>>
    \/ GenerateAndConvert /\ UNCHANGED <<ipVars, cellVars, decVars, axiVars, nameVars, threadVars>>
    \/ CheckHdlFiles /\ UNCHANGED <<ipVars, cellVars, decVars, axiVars, nameVars, threadVars>>
    \/ InvokeTool /\ UNCHANGED <<ipVars, cellVars, decVars, axiVars, nameVars, threadVars>>
    \/ CheckErr /\ UNCHANGED <<ipVars, cellVars, decVars, axiVars, nameVars, threadVars>>
    \/ ReadAndDecode /\ UNCHANGED <<ipVars, cellVars, decVars, axiVars, nameVars, threadVars>>
    \/ TrimTraces /\ UNCHANGED <<ipVars, cellVars, decVars, axiVars, nameVars, threadVars>>
    \/ Finally /\ UNCHANGED <<ipVars, cellVars, decVars, axiVars, nameVars, threadVars>>
    \/ ReturnBundle /\ UNCHANGED <<ipVars, cellVars, decVars, axiVars, nameVars, threadVars>>

InitRun == IpInit /\ CellIdle /\ DecIdle /\ AxiIdle /\ RunInit /\ NamesIdle /\ ThreadsIdle

\* one run of the cosimulation, from the call to the return or the exception
SpecRun == InitRun /\ [][RunNext]_vars

NamesNext ==
    \/ ScanLine /\ UNCHANGED <<ipVars, cellVars, decVars, axiVars, runVars, threadVars>>
    \/ ReturnMappings /\ UNCHANGED <<ipVars, cellVars, decVars, axiVars, runVars, threadVars>>

InitNames == IpInit /\ CellIdle /\ DecIdle /\ AxiIdle /\ RunIdle /\ NamesInit /\ ThreadsIdle

\* one call of the resolver of name annotations
SpecNames == InitNames /\ [][NamesNext]_vars

ThreadsNext ==
    \/ \E t \in Threads : EnterCall(t) /\ UNCHANGED <<ipVars, cellVars, decVars, axiVars, runVars, nameVars>>
    \/ \E t \in Threads : FormName(t) /\ UNCHANGED <<ipVars, cellVars, decVars, axiVars, runVars, nameVars>>
    \/ \E t \in Threads : LoadCounter(t) /\ UNCHANGED <<ipVars, cellVars, decVars, axiVars, runVars, nameVars>>
    \/ \E t \in Threads : StoreCounter(t) /\ UNCHANGED <<ipVars, cellVars, decVars, axiVars, runVars, nameVars>>
    \/ \E t \in Threads : ReturnInstance(t) /\ UNCHANGED <<ipVars, cellVars, decVars, axiVars, runVars, nameVars>>

InitThreads == IpInit /\ CellIdle /\ DecIdle /\ AxiIdle /\ RunIdle /\ NamesIdle /\ ThreadsInit

\* two threads calling one instance-creation method of one descriptor
SpecThreads == InitThreads /\ [][ThreadsNext]_vars

(***************************************************************************)
(* Properties of the descriptor                                            *)
(***************************************************************************)
IsInstanceCall == ret.op \in {"get_vhdl_instance", "get_verilog_instance"}

Distinct(seq) == \A j, k \in 1..Len(seq) : j # k => seq[j] # seq[k]

\* C1: the k-th call of one instance-creation method on a descriptor returns the
\* instance name entity_name + '_' + str(k-1), whatever port_mappings the calls
\* were given; the names one method has issued are pairwise different.
C1_KthCallYieldsIndexKMinus1 ==
    /\ \A k \in 1..Len(vhdl_instances) :
          vhdl_instances[k] = entity_name \o <<"_">> \o Str(k - 1)
    /\ \A k \in 1..Len(verilog_instances) :
          verilog_instances[k] = entity_name \o <<"_">> \o Str(k - 1)
    /\ Distinct(vhdl_instances)
    /\ Distinct(verilog_instances)
    /\ vhdl_instance_idx = Len(vhdl_instances)
    /\ verilog_instance_idx = Len(verilog_instances)

C1_Witness ==
    /\ Len(vhdl_instances) >= 3
    /\ Len(verilog_instances) >= 2
    /\ ret.op = "get_vhdl_instance"
    /\ Keys(ret.port_mappings) # {}

\* C2: an instance-creation call whose port_mappings has a key that is not a port
\* of the descriptor raises (ValueError / UnknownPortError), returns no fragment
\* and consumes no instance number.
C2_UnknownPortRejected ==
    (IsInstanceCall /\ ~(Keys(ret.port_mappings) \subseteq PortNames(ports)))
        => ret.raised \in {"ValueError", "UnknownPortError"}

\* C3: no constructed descriptor has a port of bit width below 1 or of a direction
\* that is neither input nor output (construction fails on such a port).
C3_InvalidPortRejectedAtConstruction ==
    constructed =>
        \A i \in 1..Len(ports) : ports[i].type.len >= 1 /\ SupportedDirection(ports[i])

\* the index of the first piece of text equal to piece (0 when there is none)
IndexOf(text, piece) ==
    IF \E i \in 1..Len(text) : text[i] = piece
    THEN CHOOSE i \in 1..Len(text) :
            text[i] = piece /\ \A j \in 1..(i - 1) : text[j] # piece
    ELSE 0

\* what one port-mapping entry connects: the text before the connective
EntryPort(entry, connective) == SubSeq(entry, 1, IndexOf(entry, connective) - 1)

\* the name inside the ${...} placeholder of one port-mapping entry
EntryPlaceholder(entry) ==
    SubSeq(entry, IndexOf(entry, "${") + 1, IndexOf(entry, "}") - 1)

AssignmentsOf(wrapper, p) ==
    { i \in 1..Len(wrapper.wrapped_signal_assignments) :
        \/ StartsWith(wrapper.wrapped_signal_assignments[i],
                      <<"wrapped_">> \o p \o <<" <= ">>)
        \/ StartsWith(wrapper.wrapped_signal_assignments[i], p \o <<" <= ">>) }

\* the cast assignment of a port of width > 1
CastAssignment(port) ==
    IF port.direction = "input"
    THEN <<"wrapped_">> \o port.name \o <<" <= ", "std_logic_vector", "(">> \o
         port.name \o <<")">>
    ELSE port.name \o <<" <= ">> \o
         <<IF port.type.min < 0 THEN "signed" ELSE "unsigned">> \o
         <<"(", "wrapped_">> \o port.name \o <<")">>

\* the assignment of a port of width 1: both sides are std_logic
PlainAssignment(port) ==
    IF port.direction = "input"
    THEN <<"wrapped_">> \o port.name \o <<" <= ", "std_logic", "(">> \o
         port.name \o <<")">>
    ELSE port.name \o <<" <= ", "std_logic", "(", "wrapped_">> \o port.name \o <<")">>

WrittenWrapper == directory[WrapperFilename(entity_name)]

\* C5 as stated: in the written wrapper every port of width > 1 has exactly one
\* assignment, its direction-appropriate cast, and every port of width 1 has none.
C5_NoAssignmentForWidthOne ==
    Exists(WrapperFilename(entity_name)) =>
        \A i \in 1..Len(ports) :
            LET own == AssignmentsOf(WrittenWrapper, ports[i].name)
            IN /\ ports[i].type.len > 1 =>
                    /\ Cardinality(own) = 1
                    /\ \A a \in own :
                          WrittenWrapper.wrapped_signal_assignments[a] =
                              CastAssignment(ports[i])
               /\ ports[i].type.len = 1 => own = {}

\* C5 amended: in the written wrapper every port has exactly one assignment, at the
\* port's position: for width > 1 the direction-appropriate cast (input:
\* wrapped_p <= std_logic_vector(p); output: p <= signed|unsigned(wrapped_p), signed
\* iff the type's min is negative), and for width 1 the same assignment with
\* std_logic as the conversion (input: wrapped_p <= std_logic(p); output:
\* p <= std_logic(wrapped_p)).
C5_OneAssignmentPerPort ==
    Exists(WrapperFilename(entity_name)) =>
        /\ Len(WrittenWrapper.wrapped_signal_assignments) = Len(ports)
        /\ \A i \in 1..Len(ports) :
              /\ AssignmentsOf(WrittenWrapper, ports[i].name) = {i}
              /\ ports[i].type.len > 1 =>
                    WrittenWrapper.wrapped_signal_assignments[i] =
                        CastAssignment(ports[i])
              /\ ports[i].type.len = 1 =>
                    WrittenWrapper.wrapped_signal_assignments[i] =
                        PlainAssignment(ports[i])

C5_Witness ==
    /\ Exists(WrapperFilename(entity_name))
    /\ Len(ports) = 2
    /\ ports[1].type.len = 1 /\ ports[1].direction = "input"
    /\ ports[2].type.len = 2 /\ ports[2].type.min < 0 /\ ports[2].direction = "output"
    /\ ret.op = "write_vhdl_wrapper" /\ ret.raised = "none"

(***************************************************************************)
(* Properties of the cell decode                                           *)
(***************************************************************************)
Decoded == each_value # Pending

RECURSIVE Bits(_, _)
\* the w binary digits of n, 0 <= n < 2^w, most significant first
Bits(n, w) ==
    IF w = 0 THEN <<>>
    ELSE Append(Bits(n \div 2, w - 1), IF n % 2 = 1 THEN "1" ELSE "0")

\* the width-w bit pattern of v: two's complement for a negative v
BitPattern(v, w) == Bits(IF v < 0 THEN v + Pow2(w) ELSE v, w)

\* C6: a cell of a signed column holding the width-w two's-complement pattern of v,
\* -2^(w-1) <= v < 2^(w-1), decodes to v; a cell of an unsigned column holding the
\* width-w binary pattern of v, 0 <= v < 2^w, decodes to v.
C6_BitPatternRoundTrip ==
    Decoded =>
        \A w \in 1..Len(dut_str_value) :
            /\ signal_type = "signed" =>
                  \A v \in (0 - Pow2(w - 1))..(Pow2(w - 1) - 1) :
                      dut_str_value = BitPattern(v, w) => each_value = IntVal(v)
            /\ signal_type = "unsigned" =>
                  \A v \in 0..(Pow2(w) - 1) :
                      dut_str_value = BitPattern(v, w) => each_value = IntVal(v)

C6_Witness ==
    /\ Decoded /\ signal_type = "signed"
    /\ dut_str_value = BitPattern(-3, 3)
    /\ each_value = IntVal(-3)

\* the text is a bit pattern: binary digits only
IsBitPattern(text) == Len(text) > 0 /\ \A i \in 1..Len(text) : text[i] \in {"0", "1"}

\* C7: a cell of a non-bool column whose bit pattern has more bits than the declared
\* width of its port is decoded as None (or decoding fails), never as an integer.
C7_OverWidthCellIsUndefined ==
    (Decoded /\ signal_type # "bool" /\ IsBitPattern(dut_str_value)
        /\ Len(dut_str_value) > port_width)
        => each_value = None

\* C9: in a bool column "0" decodes to False, "1" to True and every other text
\* to None.
C9_BoolCellIsZeroOneOrUndefined ==
    (Decoded /\ signal_type = "bool") =>
        each_value = (IF dut_str_value = <<"0">> THEN BoolVal(FALSE)
                      ELSE IF dut_str_value = <<"1">> THEN BoolVal(TRUE)
                      ELSE None)

(***************************************************************************)
(* Properties of the capture decoder                                       *)
(***************************************************************************)
Returned == pc = "returned"

ColumnContainer(k) == Split(vivado_signals[k].header, " ")[1]
ColumnKind(k) == Split(vivado_signals[k].header, " ")[2]
ColumnName(k) == Split(vivado_signals[k].header, " ")[3]

\* the list a 'list' column belongs to, and its index as a number
ColumnList(k) == ParseListHeader(ColumnName(k)).list_name
ColumnIndex(k) == IntParse(ParseListHeader(ColumnName(k)).index, 10).val

\* the columns of the list of column k
ListColumns(k) ==
    { j \in 1..Len(vivado_signals) :
        ColumnContainer(j) = <<"list">> /\ ColumnList(j) = ColumnList(k) }

\* the place of column k in its list: 1 for the smallest recorded index, ...
ListPlace(k) == Cardinality({ j \in ListColumns(k) : ColumnIndex(j) <= ColumnIndex(k) })

\* the cycles of the returned dut trace that the capture has a row for
ReturnedCycles == 1..Min(outputs_length, Len(vivado_signals[1].cells))

\* the value the returned dut trace holds for column k in cycle c
ReturnedValue(k, c) ==
    IF ColumnContainer(k) = <<"interface">>
    THEN dut_outputs[Split(ColumnName(k), ".")[1]][c][Split(ColumnName(k), ".")[2]]
    ELSE IF ColumnContainer(k) = <<"list">>
    THEN dut_outputs[ColumnList(k)][c][ListPlace(k)]
    ELSE dut_outputs[ColumnName(k)][c]

\* the cell's text is not a number of its column's kind (int() raises ValueError)
FailsToParse(k, r) ==
    ~IntParse(vivado_signals[k].cells[r],
              IF ColumnKind(k) = <<"bool">> THEN 10 ELSE 2).ok

ColumnOrders(n) ==
    { f \in [1..n -> 1..n] : \A i, j \in 1..n : i # j => f[i] # f[j] }

Permuted(capture, f) == [k \in 1..Len(capture) |-> capture[f[k]]]

\* the orders of the capture's columns that move 'list' columns only
ListColumnOrders ==
    { f \in ColumnOrders(Len(vivado_signals)) :
        \A k \in 1..Len(vivado_signals) :
            ColumnContainer(k) # <<"list">> => f[k] = k }

\* C10: the returned dut side is the same for every order of the capture's 'list'
\* columns, and in every cycle the inner sequence of a list holds the values of the list's
\* columns in ascending numeric order of their indices (10 after 2).
C10_ListOrderIsNumericWhateverTheColumnOrder ==
    Returned =>
        /\ \A f \in ListColumnOrders :
              DecodeCapture(arg_types, outputs, outputs_length,
                            Permuted(vivado_signals, f))
                  = [raised |-> "none", dut |-> dut_outputs]
        /\ \A k \in 1..Len(vivado_signals) :
              ColumnContainer(k) = <<"list">> =>
                  \A c \in ReturnedCycles :
                      /\ Len(dut_outputs[ColumnList(k)][c]) = Cardinality(ListColumns(k))
                      /\ dut_outputs[ColumnList(k)][c][ListPlace(k)] =
                            DecodeCell("signed", vivado_signals[k].cells[c])

C10_Witness ==
    /\ Returned
    /\ Len(vivado_signals) = 3 /\ outputs_length = 2
    /\ ColumnName(1) = ArgL \o <<"[", "1", "0", "]">>
    /\ ColumnName(2) = ArgP
    /\ ColumnName(3) = ArgL \o <<"[", "2", "]">>
    /\ vivado_signals[3].cells = <<<<"0", "1", "1">>, <<"1", "0", "0">>, <<"1", "0", "1">>>>
    /\ vivado_signals[1].cells = <<<<"1", "0", "0">>, <<"1", "0", "1">>, <<"1", "1", "0">>>>
    /\ dut_outputs[ArgL] = << <<IntVal(3), IntVal(-4)>>, <<IntVal(-4), IntVal(-3)>> >>

\* the interface argument and the field an 'interface' column is stored under
ColumnInterface(k) == Split(ColumnName(k), ".")[1]
ColumnField(k) == Split(ColumnName(k), ".")[2]

InterfaceColumns(name) ==
    { k \in 1..Len(vivado_signals) :
        ColumnContainer(k) = <<"interface">> /\ ColumnInterface(k) = name }

RecordedFields(name) == { ColumnField(k) : k \in InterfaceColumns(name) }

RecordedInterfaces ==
    { ColumnInterface(k) : k \in { j \in 1..Len(vivado_signals) :
                                      ColumnContainer(j) = <<"interface">> } }

\* C11: in every cycle of the returned dut trace of an interface argument, the
\* fields are those of the reference plus the recorded ones; a recorded field holds
\* the decoded cell of its column for that cycle and every other field holds the
\* reference's value of that field for that cycle.
C11_RecordedFieldsOverwriteOthersKept ==
    Returned =>
        \A name \in RecordedInterfaces :
            /\ Len(dut_outputs[name]) = Min(outputs_length, Len(vivado_signals[1].cells))
            /\ \A c \in 1..Len(dut_outputs[name]) :
                  /\ DOMAIN dut_outputs[name][c] =
                        (DOMAIN ref_outputs[name][c]) \cup RecordedFields(name)
                  /\ \A k \in InterfaceColumns(name) :
                        dut_outputs[name][c][ColumnField(k)] =
                            DecodeColumnCells(ColumnKind(k), vivado_signals[k].cells)[c]
                  /\ \A f \in (DOMAIN ref_outputs[name][c]) \ RecordedFields(name) :
                        dut_outputs[name][c][f] = ref_outputs[name][c][f]

C11_Witness ==
    /\ Returned
    /\ \E k \in 1..Len(vivado_signals) :
          /\ ColumnName(k) = ArgS \o <<".", "a">>
          /\ vivado_signals[k].cells[1] = <<"1", "0", "1">>
    /\ ref_outputs[ArgS][1] =
          (<<"a">> :> IntVal(141)) @@ (<<"b">> :> IntVal(151)) @@ (<<"d">> :> BoolVal(TRUE))
    /\ dut_outputs[ArgS][1] =
          (<<"a">> :> IntVal(-3)) @@ (<<"b">> :> IntVal(151)) @@ (<<"d">> :> BoolVal(TRUE))

\* the names of the lists the capture has columns for
RecordedLists ==
    { ColumnList(k) : k \in { j \in 1..Len(vivado_signals) :
                                 ColumnContainer(j) = <<"list">> } }

\* the columns of list name recorded for index i (counted from 0)
ColumnsOfIndex(name, i) ==
    { k \in 1..Len(vivado_signals) :
        ColumnContainer(k) = <<"list">> /\ ColumnList(k) = name /\ ColumnIndex(k) = i }

\* C12: in every cycle of the returned dut trace of a list argument the inner
\* sequence has the reference's length; an index that was recorded holds the
\* decoded cell of its column and every other index holds the reference's value.
C12_UnrecordedIndicesKeepReference ==
    Returned =>
        \A name \in RecordedLists :
            \A c \in 1..Len(dut_outputs[name]) :
                /\ Len(dut_outputs[name][c]) = Len(ref_outputs[name][c])
                /\ \A i \in 1..Len(ref_outputs[name][c]) :
                      IF ColumnsOfIndex(name, i - 1) = {}
                      THEN dut_outputs[name][c][i] = ref_outputs[name][c][i]
                      ELSE \E k \in ColumnsOfIndex(name, i - 1) :
                              dut_outputs[name][c][i] =
                                  DecodeCell("signed", vivado_signals[k].cells[c])

(***************************************************************************)
(* Properties of the packet extraction                                     *)
(***************************************************************************)
Extracted == axi_pc = "extracted"

\* the payload and the frame flags of the packet file, row by row
Payload == [k \in 1..Len(vivado_axi_packet) |-> IntParse(vivado_axi_packet[k].TDATA, 2).val]

FlagSet(k) ==
    /\ "TLAST" \in DOMAIN vivado_axi_packet[k]
    /\ IntParse(vivado_axi_packet[k].TLAST, 10).ok
    /\ IntParse(vivado_axi_packet[k].TLAST, 10).val # 0

SetFlags == { k \in 1..Len(vivado_axi_packet) : FlagSet(k) }

LastSetFlag == IF SetFlags = {} THEN 0 ELSE CHOOSE k \in SetFlags : \A j \in SetFlags : j <= k

RECURSIVE Flatten(_)
Flatten(ps) == IF ps = <<>> THEN <<>> ELSE Head(ps) \o Flatten(Tail(ps))

\* the row at which the j-th packet ends
PacketEnd(ps, j) == Len(Flatten(SubSeq(ps, 1, j)))

\* every cell of the packet file is a number
PacketFileParses ==
    \A k \in 1..Len(vivado_axi_packet) :
        /\ IntParse(vivado_axi_packet[k].TDATA, 2).ok
        /\ "TLAST" \in DOMAIN vivado_axi_packet[k] =>
              IntParse(vivado_axi_packet[k].TLAST, 10).ok

\* C13: the packets followed by incomplete_packet are the payload in order; every
\* packet is non-empty and ends at a row whose frame flag is set; there are as many
\* packets as set flags; incomplete_packet is the payload after the last set flag;
\* and a packet file whose cells are all numbers is extracted without an error,
\* whatever is left in incomplete_packet.
C13_PacketsPartitionThePayload ==
    /\ Extracted =>
          LET ps == axi_extracted.packets
              rest == axi_extracted.incomplete_packet
          IN /\ Flatten(ps) \o rest = Payload
             /\ \A j \in 1..Len(ps) : Len(ps[j]) > 0 /\ FlagSet(PacketEnd(ps, j))
             /\ Len(ps) = Cardinality(SetFlags)
             /\ rest = SubSeq(Payload, LastSetFlag + 1, Len(Payload))
    /\ PacketFileParses => axi_raised = "none" /\ axi_pc # "failed"

C13_Witness ==
    /\ Extracted
    /\ Payload = <<1, 2, 3, 4, 5>>
    /\ SetFlags = {3}
    /\ axi_extracted = [packets |-> << <<1, 2, 3>> >>, incomplete_packet |-> <<4, 5>>]

(***************************************************************************)
(* Properties of the returned bundle                                       *)
(***************************************************************************)
\* the entry of dut_outputs the decoder stores column k under
ColumnTarget(k) ==
    IF ColumnContainer(k) = <<"interface">> THEN ColumnInterface(k)
    ELSE IF ColumnContainer(k) = <<"list">> THEN ColumnList(k)
    ELSE ColumnName(k)

RecordedTargets == { ColumnTarget(k) : k \in 1..Len(vivado_signals) }

DecodedColumn(k) == DecodeColumnCells(ColumnKind(k), vivado_signals[k].cells)

CaptureRowCount == Len(vivado_signals[1].cells)

\* C14: in the returned bundle the dut entry of an argument the capture has no
\* column for is the reference entry of that argument, cut to the reference length,
\* and the dut entry of a recorded 'plain' column is the column's decoded cells (cut
\* to the same length).
C14_OnlyRecordedEntriesAreOverwritten ==
    Returned =>
        /\ \A name \in (DOMAIN outputs) \ RecordedTargets :
              /\ dut_outputs[name] = ref_outputs[name]
              /\ dut_outputs[name] = SubSeq(outputs[name], 1, outputs_length)
        /\ \A k \in 1..Len(vivado_signals) :
              ColumnContainer(k) = <<"plain">> =>
                  dut_outputs[ColumnName(k)] =
                      SubSeq(DecodedColumn(k), 1, Min(outputs_length, CaptureRowCount))

C14_Witness ==
    /\ Returned
    /\ outputs_length = 2 /\ CaptureRowCount = 3
    /\ \E k \in 1..Len(vivado_signals) :
          ColumnContainer(k) = <<"plain">> /\ ColumnName(k) = ArgP
    /\ dut_outputs[ArgP] = <<IntVal(1), IntVal(2)>>
    /\ ref_outputs[ArgP] = <<IntVal(101), IntVal(102)>>
    /\ ArgL \notin RecordedTargets
    /\ dut_outputs[ArgL] = << <<IntVal(111), IntVal(121), IntVal(131)>>,
                              <<IntVal(112), IntVal(122), IntVal(132)>> >>

\* C15: when the capture has more rows than the reference run recorded cycles, the
\* dut trace and the reference trace of every argument have exactly that many
\* cycles in the returned bundle, and the dut trace holds the decoded cells of the
\* first rows of the capture: the rows beyond are dropped.
C15_LongerCaptureIsCutToReferenceLength ==
    (Returned /\ CaptureRowCount > outputs_length) =>
        /\ \A name \in DOMAIN outputs :
              /\ Len(dut_outputs[name]) = outputs_length
              /\ Len(ref_outputs[name]) = outputs_length
        /\ \A k \in 1..Len(vivado_signals) : \A c \in 1..outputs_length :
              ReturnedValue(k, c) = DecodedColumn(k)[c]

C15_Witness ==
    /\ Returned
    /\ outputs_length = 2 /\ CaptureRowCount = 3
    /\ \E k \in 1..Len(vivado_signals) : ColumnTarget(k) = ArgL
    /\ \E k \in 1..Len(vivado_signals) : ColumnTarget(k) = ArgS
    /\ Len(dut_outputs[ArgL]) = 2 /\ Len(dut_outputs[ArgS]) = 2
    /\ Len(ref_outputs[ArgL]) = 2

\* C16: in the returned bundle the dut trace and the reference trace of every
\* argument have the same number of cycles, whatever the number of rows of the
\* capture.
C16_DutAndReferenceHaveTheSameLength ==
    Returned =>
        \A name \in DOMAIN ref_outputs :
            Len(dut_outputs[name]) = Len(ref_outputs[name])

\* the decoding has stopped with an exception, or has not yet looked at the columns
NothingDecoded == pc \in {"capture_read", "failed"}

\* C17: a capture with a column whose container token is none of plain, list and
\* interface is not decoded: the decoding fails, no bundle is returned.
C17_UnknownContainerIsFatal ==
    (\E k \in 1..Len(vivado_signals) :
        ColumnContainer(k) \notin {<<"plain">>, <<"list">>, <<"interface">>})
    => NothingDecoded

\* C18: a capture with a column whose name has more than one '.'-separated
\* nesting level is not decoded: the decoding fails, no bundle is returned.
C18_DeeperNestingIsFatal ==
    (\E k \in 1..Len(vivado_signals) : Len(Split(ColumnName(k), ".")) > 2)
    => NothingDecoded

(***************************************************************************)
(* Properties of tcl_string                                                *)
(***************************************************************************)
TclRead == ret.op = "tcl_string"

\* the entries of the set_property statement that set the given option
EntriesOfOption(statement, option) ==
    { i \in 1..Len(statement.config_string) :
        StartsWith(statement.config_string[i], <<"CONFIG.">> \o option \o <<" {">>) }

\* what tcl_string returned is the three statements: create_ip, set_property with
\* one CONFIG.<key> {<value>} per pair of config, generate_target
ThreeTclStatements ==
    /\ Len(ret.value) = 3
    /\ ret.value[1] =
          <<"create_ip -name ">> \o ip_name \o <<" -vendor ">> \o vendor
          \o <<" -library ">> \o library \o <<" -version ">> \o version
          \o <<" -module_name ">> \o module_name \o <<"\n">>
    /\ ret.value[2].head = <<"set_property -dict [list ">>
    /\ ret.value[2].tail = <<"] [get_ips ">> \o module_name \o <<"]\n">>
    /\ Len(ret.value[2].config_string) = Len(config)
    /\ \A i \in 1..Len(config) :
          /\ ret.value[2].config_string[i] =
                <<"CONFIG.">> \o config[i].option \o <<" {">> \o config[i].value
                \o <<"}">>
          /\ Cardinality(EntriesOfOption(ret.value[2], config[i].option)) = 1
    /\ ret.value[3] = <<"generate_target all [get_ips ">> \o module_name \o <<"]\n">>

\* C19: tcl_string returns exactly the three statements create_ip, set_property
\* (every pair of config once, as CONFIG.<key> {<value>}) and generate_target, in
\* this order, all for module_name; and reading it changes neither instance counter.
C19_TclStringIsThreeStatements ==
    /\ [](TclRead => ThreeTclStatements)
    /\ [][ret'.op = "tcl_string" =>
            /\ vhdl_instance_idx' = vhdl_instance_idx
            /\ verilog_instance_idx' = verilog_instance_idx]_vars

C19_Witness ==
    /\ TclRead
    /\ Len(config) = 2
    /\ Len(ret.value[2].config_string) = 2
    /\ vhdl_instance_idx = 1 /\ verilog_instance_idx = 2

\* C20: the module name of create_ip and get_ips is entity_name + '_' + ip_name.
C20_ModuleNameIsEntityThenIp ==
    constructed => module_name = entity_name \o <<"_">> \o ip_name

(***************************************************************************)
(* Properties of one cosimulation run                                      *)
(***************************************************************************)
RunEnded == run_pc \in {"returned", "raised"}

\* the run raised before line 138 was reached
FailedBeforeMkdtemp == run_raised # "none" /\ stages = <<>>

\* C21: when a run has ended after the temporary directory was created, whatever
\* the exit path, the directory is deleted if keep_temp_files is False and exists
\* if it is True; a run that failed before the creation has no directory.
C21_TmpDirFollowsKeepTempFiles ==
    RunEnded =>
        IF FailedBeforeMkdtemp
        THEN tmp_dir = "none"
        ELSE tmp_dir = (IF keep_temp_files THEN "exists" ELSE "deleted")

C21_Witness ==
    /\ run_pc = "raised" /\ run_raised = "OvenbirdConversionError"
    /\ ~keep_temp_files /\ tmp_dir = "deleted"

\* the run got as far as the check of the HDL files
ReachedHdlFileCheck == Len(stages) >= 2

\* C22: the tool is started only if the executable is configured and every
\* expected HDL file exists; with no executable the run ends with EnvironmentError
\* before the reference run and before anything is created; with an HDL file
\* missing it ends with EnvironmentError and the tool was never started; no
\* bundle is returned in either case.
C22_ToolNeedsExecutableAndHdlFiles ==
    /\ tool_invocations > 0 =>
           /\ environment.vivado_executable # "None"
           /\ environment.hdl_files_exist
    /\ (RunEnded /\ environment.vivado_executable = "None") =>
           /\ run_raised = "EnvironmentError"
           /\ stages = <<>> /\ tmp_dir = "none"
           /\ tool_invocations = 0 /\ ~bundle_returned
    /\ (RunEnded /\ ReachedHdlFileCheck /\ ~environment.hdl_files_exist) =>
           /\ run_raised = "EnvironmentError"
           /\ tool_invocations = 0 /\ ~bundle_returned

C22_Witness ==
    /\ run_pc = "raised" /\ run_raised = "EnvironmentError"
    /\ stages = <<"reference", "artifacts">>
    /\ ~environment.hdl_files_exist /\ tool_invocations = 0

\* the tool wrote to its error stream
ToolWroteToErr == tool_invocations > 0 /\ environment.err # "empty"

\* C23: if the tool writes anything to its error stream the run ends with
\* VivadoError, the capture is not read or decoded, no bundle is returned and the
\* tool is not started again.
C23_ErrStreamMeansVivadoError ==
    (RunEnded /\ ToolWroteToErr) =>
        /\ run_raised = "VivadoError"
        /\ stages = <<"reference", "artifacts", "hdl_files_checked", "tool">>
        /\ ~bundle_returned
        /\ tool_invocations = 1

StageOrder ==
    <<"reference", "artifacts", "hdl_files_checked", "tool", "decoded", "trimmed",
      "returned">>

\* C27: the stages of a run are completed in the order reference run, artifacts
\* and conversion, HDL file check, tool, capture decoded, traces trimmed, bundle
\* returned, each after the one before it; the tool is asked for exactly
\* (reference length + 1) cycles.
C27_StagesInOrderAndOneExtraCycle ==
    /\ Len(stages) <= Len(StageOrder)
    /\ stages = SubSeq(StageOrder, 1, Len(stages))
    /\ bundle_returned <=> stages = StageOrder
    /\ tool_invocations > 0 =>
           /\ run_outputs_length = environment.outputs_length
           /\ tool_cycles = run_outputs_length + 1

C27_Witness ==
    /\ bundle_returned /\ stages = StageOrder
    /\ run_outputs_length = 2 /\ tool_cycles = 3

(***************************************************************************)
(* Properties of the resolver of name annotations                          *)
(***************************************************************************)
AnnotationNames == {"a", "b", "x", "y", "z"}

\* the line begins with '<comment_string> <name_annotation> <internal> <external>'
IsAnnotationLine(line) ==
    /\ Len(line) >= 7
    /\ line[1] = comment_string /\ line[2] = " "
    /\ line[3] = "<name_annotation>" /\ line[4] = " "
    /\ line[5] \in AnnotationNames /\ line[6] = " "
    /\ line[7] \in AnnotationNames
    /\ (Len(line) > 7 => line[8] = " ")

AnnotationLines == {i \in 1..Len(code) : IsAnnotationLine(code[i])}

\* the line holds the annotation marker somewhere
HoldsMarker(line) == \E i \in 1..Len(line) : line[i] = "<name_annotation>"

\* the line begins with the marker but does not give two names
IsShortAnnotationLine(line) ==
    /\ StartsWith(line, <<comment_string, " ", "<name_annotation>">>)
    /\ ~IsAnnotationLine(line)

C25_ReferencePacketsAreNotReplaced ==
    ref_axi_entry = ReferenceAxiEntry

\* C26: an unresolved TDATA or TLAST cell of the packet file is no error, the
\* extraction is not aborted by it; a packet file with no TLAST column gives no
\* packets and all its payload in incomplete_packet.
C26_UnresolvedPacketCellIsNoError ==
    /\ axi_raised = "none" /\ axi_pc # "failed"
    /\ (Extracted /\ \A k \in 1..Len(vivado_axi_packet) :
                        "TLAST" \notin DOMAIN vivado_axi_packet[k]) =>
           /\ axi_extracted.packets = <<>>
           /\ axi_extracted.incomplete_packet =
                  [k \in 1..Len(vivado_axi_packet) |-> k]

(***************************************************************************)
(* Properties of concurrent instance creation                              *)
(***************************************************************************)
\* C28: the name is formed from the counter and the counter is incremented in a
\* separate step, so two threads calling without synchronisation can obtain the
\* same instance number (C28_Witness); when every call is made under one mutex,
\* all the numbers issued are distinct.
C28_MutexMakesIssuedNumbersDistinct ==
    mutex_used =>
        \A i, j \in 1..Len(issued) : i # j => issued[i].number # issued[j].number

\* without a mutex, both threads have been given instance number 0
C28_Witness ==
    /\ ~mutex_used
    /\ \E i, j \in 1..Len(issued) :
           /\ issued[i].thread = 1 /\ issued[j].thread = 2
           /\ issued[i].number = 0 /\ issued[j].number = 0

(***************************************************************************)
(* Frame of the descriptor's operations                                    *)
(***************************************************************************)
\* C29: once constructed, a descriptor changes only in its instance counters:
\* get_vhdl_instance adds exactly one to the VHDL counter and leaves the Verilog
\* counter, get_verilog_instance the reverse, tcl_string and write_vhdl_wrapper
\* change neither; ports, config, the names, vendor, library and version are
\* left unchanged by every operation.
C29_OnlyTheCalledCounterChanges ==
    [][constructed =>
          /\ UNCHANGED <<constructed, entity_name, ip_name, module_name, ports,
                         vendor, library, version, config>>
          /\ ret'.op = "get_vhdl_instance" =>
                 /\ vhdl_instance_idx' = vhdl_instance_idx + 1
                 /\ UNCHANGED verilog_instance_idx
          /\ ret'.op = "get_verilog_instance" =>
                 /\ verilog_instance_idx' = verilog_instance_idx + 1
                 /\ UNCHANGED vhdl_instance_idx
          /\ ret'.op \in {"tcl_string", "write_vhdl_wrapper"} =>
                 UNCHANGED <<vhdl_instance_idx, verilog_instance_idx>>]_vars

\* both kinds of instance have been created, then the wrapper written
C29_Witness ==
    /\ constructed /\ ret.op = "write_vhdl_wrapper"
    /\ vhdl_instance_idx = 2 /\ verilog_instance_idx = 1
    /\ Len(vhdl_instances) = 2 /\ Len(verilog_instances) = 1

(***************************************************************************)
(* Independence of the arguments in the decoding                           *)
(***************************************************************************)
\* the capture with only the columns of argument name
ColumnsOf(name) ==
    LET keep == {k \in 1..Len(vivado_signals) : ColumnTarget(k) = name}
        RECURSIVE Pick(_)
        Pick(k) == IF k > Len(vivado_signals) THEN <<>>
                   ELSE IF k \in keep THEN <<vivado_signals[k]>> \o Pick(k + 1)
                   ELSE Pick(k + 1)
    IN Pick(1)

\* C30: the returned dut entry of an argument is fixed by the argument's own
\* columns: decoding the capture with every other column taken away (same
\* reference, same types) returns the same entry, so two captures that agree on
\* the argument's columns give the same entry whatever their other columns hold.
C30_EntryDependsOnOwnColumnsOnly ==
    Returned =>
        \A name \in DOMAIN outputs \cap RecordedTargets :
            LET alone == DecodeCapture(arg_types, outputs, outputs_length,
                                       ColumnsOf(name))
            IN /\ alone.raised = "none"
               /\ alone.dut[name] = dut_outputs[name]

\* a plain column of p after a list column of l and an interface column of s
C30_Witness ==
    /\ Returned
    /\ Len(vivado_signals) = 3
    /\ ColumnTarget(1) = ArgL /\ ColumnTarget(2) = ArgS /\ ColumnTarget(3) = ArgP
    /\ Len(ColumnsOf(ArgP)) = 1
    /\ dut_outputs[ArgP] # outputs[ArgP]

====
